---- MODULE Spec2Model ----
(***************************************************************************)
(* A model of obj-to-json.py: the converter from the v/f subset of the     *)
(* OBJ mesh format to a JSON document {"vertices": [...], "indices": [...]}*)
(*                                                                         *)
(* Text is modelled at character level: a character is its Unicode code    *)
(* point, a line and a token are sequences of code points, and the string  *)
(* operations of the source (strip, split, find, slicing, float, int) are  *)
(* operators over such sequences.  The character classes (whitespace,      *)
(* decimal digits) are those of the Unicode database of CPython 3.11.      *)
(*                                                                         *)
(* A float is an IEEE 754 double: [kind, neg, mant, exp2], for a finite    *)
(* value (-1)^neg * mant * 2^exp2 with mant odd (zero is mant = 0,         *)
(* exp2 = 0 and keeps its sign), or an infinity, or the NaN.  float() is   *)
(* the correctly rounded (half to even) double of the decimal the token    *)
(* denotes.                                                                *)
(***************************************************************************)
EXTENDS Integers, Sequences, FiniteSets, TLC

VARIABLES
    input,       \* the lines the input file (args.obj) holds, in order
    pc,          \* position of main: "parse_args", "args_obj", "args_json",
                 \* "loop", "dump", "exit" (main has returned), "done"
    parse,       \* how parser.parse_args() ended: "pending", "returned",
                 \* "help", "usage_error", "obj_error", "json_error"
    objOpened,   \* args.obj has been opened for reading
    jsonOpened,  \* args.json has been opened for writing
    jsonFile,    \* the output path: "untouched" or "truncated" (created/emptied)
    jsonDocs,    \* the documents written to args.json, whole, in order
    jsonBuffer,  \* the documents json.dump has put into the buffer of args.json
                 \* that have not reached the output
    jsonPartial, \* the output holds the beginning of a document's text and
                 \* not its end
    i,           \* number of lines the for loop has consumed
    vertices,    \* obj_to_dict's local list
    indices,     \* obj_to_dict's local list
    err,         \* the exception raised, NoErr if none
    result,      \* obj_to_dict's return value, NoDoc before it returns
    exitCode     \* process exit status, -1 while running

vars == <<input, pc, parse, objOpened, jsonOpened, jsonFile, jsonDocs,
          jsonBuffer, jsonPartial, i, vertices, indices, err, result, exitCode>>

----------------------------------------------------------------------------
(* Bounds *)

MaxLines == 3

----------------------------------------------------------------------------
(* Characters *)

\* the printable ASCII characters, code points 32 to 126 (the double quote,
\* the backslash and the grave accent by name)
Ascii ==
    << " ", "!", "QUOTE", "#", "$", "%", "&", "'", "(", ")", "*", "+", ",", "-", ".", "/",
       "0", "1", "2", "3", "4", "5", "6", "7", "8", "9", ":", ";", "<", "=", ">", "?",
       "@", "A", "B", "C", "D", "E", "F", "G", "H", "I", "J", "K", "L", "M", "N", "O",
       "P", "Q", "R", "S", "T", "U", "V", "W", "X", "Y", "Z", "[", "BACKSLASH", "]", "^", "_",
       "GRAVE", "a", "b", "c", "d", "e", "f", "g", "h", "i", "j", "k", "l", "m", "n", "o",
       "p", "q", "r", "s", "t", "u", "v", "w", "x", "y", "z", "{", "|", "}", "~" >>

\* the code point of a printable ASCII character
ord(c) == 31 + (CHOOSE k \in 1..Len(Ascii) : Ascii[k] = c)

\* the text (sequence of code points) of a sequence of ASCII characters
chars(s) == [k \in 1..Len(s) |-> ord(s[k])]

Hash == ord("#")
Slash == ord("/")
Underscore == ord("_")
Dot == ord(".")
Plus == ord("+")
Minus == ord("-")
Zero0 == ord("0")
LetterE == ord("e")

\* str.isspace(): the characters str.strip() strips and str.split() splits on
WhiteSpace ==
    (9..13) \cup (28..32) \cup {133, 160, 5760} \cup (8192..8202)
        \cup {8232, 8233, 8239, 8287, 12288}

IsSpace(c) == c = 32 \/ c \in WhiteSpace

\* the code points of the digit zero of every Unicode decimal digit range
\* (category Nd); the digits 0..9 of a range are consecutive
NdZeros ==
    { 48, 1632, 1776, 1984, 2406, 2534, 2662, 2790, 2918, 3046, 3174, 3302,
      3430, 3558, 3664, 3792, 3872, 4160, 4240, 6112, 6160, 6470, 6608, 6784,
      6800, 6992, 7088, 7232, 7248, 42528, 43216, 43264, 43472, 43504, 43600,
      44016, 65296, 66720, 68912, 69734, 69872, 69942, 70096, 70384, 70736,
      70864, 71248, 71360, 71472, 71904, 72016, 72784, 73040, 73120, 92768,
      92864, 93008, 120782, 120792, 120802, 120812, 120822, 123200, 123632,
      125264, 130032 }

\* a decimal digit, as int() and float() accept it
IsDigit(c) ==
    \/ c \in 48..57
    \/ c > 127 /\ \E z \in NdZeros : c \in z..(z + 9)

DigitVal(c) ==
    IF c \in 48..57 THEN c - 48
    ELSE c - (CHOOSE z \in NdZeros : c \in z..(z + 9))

Question == ord("?")

\* int() and float() first map every decimal digit to its ASCII digit, every
\* other non-ASCII character to '?'
to_ascii(tok) ==
    [k \in 1..Len(tok) |->
        IF IsDigit(tok[k]) THEN Zero0 + DigitVal(tok[k])
        ELSE IF tok[k] > 127 THEN Question
        ELSE tok[k]]

\* str.lower() on an ASCII letter
lower(c) == IF c \in 65..90 THEN c + 32 ELSE c

----------------------------------------------------------------------------
(* Strings *)

\* the least element of a non-empty set of positions
least(S) == CHOOSE j \in S : \A h \in S : j <= h

\* the greatest element of a non-empty set of positions
greatest(S) == CHOOSE j \in S : \A h \in S : j >= h

\* the first position from k on that holds no whitespace, Len(s) + 1 if
\* none; a long run of whitespace is searched a stretch at a time
RECURSIVE first_nonspace(_, _)
first_nonspace(s, k) ==
    IF k > Len(s) THEN k
    ELSE IF ~IsSpace(s[k]) THEN k
    ELSE LET hi   == IF k + 1024 < Len(s) THEN k + 1024 ELSE Len(s)
             hits == {j \in k..hi : ~IsSpace(s[j])}
         IN IF hits = {} THEN first_nonspace(s, hi + 1) ELSE least(hits)

\* the last position up to k that holds no whitespace, 0 if none
RECURSIVE last_nonspace(_, _)
last_nonspace(s, k) ==
    IF k < 1 THEN k
    ELSE IF ~IsSpace(s[k]) THEN k
    ELSE LET lo   == IF k - 1024 > 1 THEN k - 1024 ELSE 1
             hits == {j \in lo..k : ~IsSpace(s[j])}
         IN IF hits = {} THEN last_nonspace(s, lo - 1) ELSE greatest(hits)

\* str.strip()
strip(s) == SubSeq(s, first_nonspace(s, 1), last_nonspace(s, Len(s)))

\* the first position from k on that holds c, 0 if none
RECURSIVE index_from(_, _, _)
index_from(s, c, k) ==
    IF k > Len(s) THEN 0
    ELSE IF s[k] = c THEN k
    ELSE LET hi   == IF k + 1024 < Len(s) THEN k + 1024 ELSE Len(s)
             hits == {j \in k..hi : s[j] = c}
         IN IF hits = {} THEN index_from(s, c, hi + 1) ELSE least(hits)

\* str.find(c): zero-based position of the first c, -1 if there is none
find(s, c) == index_from(s, c, 1) - 1

\* s[:n]
prefix(s, n) == SubSeq(s, 1, n)

\* mutant: a '#' starts a comment only as the first character of the line
before_hash_leading_only(s) ==
    IF s # <<>> /\ s[1] = Hash THEN <<>> ELSE s

\* s.split('#', 1)[0]
before_hash(s) ==
    LET h == find(s, Hash) IN IF h = -1 THEN s ELSE prefix(s, h)

\* the first position from k on that holds whitespace, Len(s) + 1 if none
RECURSIVE first_space(_, _)
first_space(s, k) ==
    IF k > Len(s) THEN k
    ELSE IF IsSpace(s[k]) THEN k
    ELSE LET hi   == IF k + 1024 < Len(s) THEN k + 1024 ELSE Len(s)
             hits == {j \in k..hi : IsSpace(s[j])}
         IN IF hits = {} THEN first_space(s, hi + 1) ELSE least(hits)

\* the maximal runs of non-whitespace characters of s from position k on
RECURSIVE split_from(_, _)
split_from(s, k) ==
    LET a == first_nonspace(s, k) IN
    IF a > Len(s) THEN <<>>
    ELSE LET b == first_space(s, a) IN
         <<SubSeq(s, a, b - 1)>> \o split_from(s, b)

\* str.split()
split(s) == split_from(s, 1)

\* line 10: data = line.strip().split('#', 1)[0].split()
data_of(line) == split(before_hash(strip(line)))

----------------------------------------------------------------------------
(* Numbers *)

IsAsciiDigit(c) == c \in 48..57

AllDigits(s) == \A k \in 1..Len(s) : IsAsciiDigit(s[k])

\* an underscore is allowed only between two digits
underscores_ok(t) ==
    \A k \in 1..Len(t) :
        t[k] = Underscore =>
            /\ k > 1 /\ IsAsciiDigit(t[k - 1])
            /\ k < Len(t) /\ IsAsciiDigit(t[k + 1])

NotUnderscore(c) == c # Underscore

\* the token as the number parser reads it: digits in ASCII, underscores
\* removed
plain(tok) == SelectSeq(to_ascii(tok), NotUnderscore)

HasSign(t) == t # <<>> /\ t[1] \in {Plus, Minus}

unsigned(t) == IF HasSign(t) THEN Tail(t) ELSE t

negative(t) == t # <<>> /\ t[1] = Minus

RECURSIVE digits_val(_)
digits_val(s) ==
    IF s = <<>> THEN 0
    ELSE 10 * digits_val(SubSeq(s, 1, Len(s) - 1)) + (s[Len(s)] - Zero0)

\* the text int() scans: the token in ASCII, without its sign
int_text(tok) == unsigned(to_ascii(tok))

\* the leading run of digits and underscores of the text: what int() scans
\* before it looks at what follows
int_run(tok) ==
    LET b     == int_text(tok)
        stops == {k \in 1..Len(b) : ~(IsAsciiDigit(b[k]) \/ b[k] = Underscore)}
    IN IF stops = {} THEN b ELSE prefix(b, least(stops) - 1)

\* what int() finds in the token: whether the run is well formed
\* (digit (['_'] digit)*, or empty), its number of digits, and whether the
\* run is the whole text
int_scan(tok) ==
    LET run == int_run(tok) IN
    [ok     |-> underscores_ok(run),
     digits |-> Len(SelectSeq(run, NotUnderscore)),
     whole  |-> Len(run) = Len(int_text(tok))]

\* the number of digits of the run
int_digits(tok) == int_scan(tok).digits

\* the run has more digits than sys.get_int_max_str_digits(): int() counts
\* the digits of a well-formed run before it looks at what follows the run
int_too_long(tok) == LET sc == int_scan(tok) IN sc.ok /\ sc.digits > 4300

\* the token is a base-10 integer literal: [sign] digit (['_'] digit)*
int_literal(tok) == LET sc == int_scan(tok) IN sc.ok /\ sc.whole /\ sc.digits > 0

\* int(tok) succeeds
is_int(tok) ==
    LET sc == int_scan(tok) IN sc.ok /\ sc.whole /\ sc.digits > 0 /\ ~(sc.digits > 4300)

\* int(tok)
int_val(tok) ==
    LET t == plain(tok) IN
    (IF negative(t) THEN -1 ELSE 1) * digits_val(unsigned(t))

\* the mantissa and the exponent part of an unsigned decimal literal: the
\* text before and after its first 'e' or 'E'
mantissa_part(b) ==
    LET e == find([k \in 1..Len(b) |-> lower(b[k])], LetterE) IN
    IF e = -1 THEN b ELSE prefix(b, e)

exponent_part(b) ==
    LET e == find([k \in 1..Len(b) |-> lower(b[k])], LetterE) IN
    IF e = -1 THEN <<>> ELSE SubSeq(b, e + 2, Len(b))

has_exponent(b) == find([k \in 1..Len(b) |-> lower(b[k])], LetterE) # -1

\* digits [. digits] | . digits, with at least one digit
is_mantissa(m) ==
    /\ \A k \in 1..Len(m) : IsAsciiDigit(m[k]) \/ m[k] = Dot
    /\ \E k \in 1..Len(m) : IsAsciiDigit(m[k])
    /\ Cardinality({k \in 1..Len(m) : m[k] = Dot}) <= 1

\* [sign] digits
is_exponent(x) == unsigned(x) # <<>> /\ AllDigits(unsigned(x))

\* the words float() reads as an infinity and as a NaN, in any case
InfWords == { chars(<<"i", "n", "f">>), chars(<<"i", "n", "f", "i", "n", "i", "t", "y">>) }
NanWord == chars(<<"n", "a", "n">>)

\* the unsigned text, lower case, when it is inf, infinity or nan
special_of(b) ==
    LET w == [k \in 1..Len(b) |-> lower(b[k])] IN
    IF w \in InfWords THEN "inf"
    ELSE IF w = NanWord THEN "nan"
    ELSE "none"

\* float(tok) succeeds
is_float(tok) ==
    LET b == unsigned(plain(tok)) IN
    /\ underscores_ok(to_ascii(tok))
    /\ \/ special_of(b) # "none"
       \/ /\ is_mantissa(mantissa_part(b))
          /\ has_exponent(b) => is_exponent(exponent_part(b))

RECURSIVE Pow(_, _)
Pow(b, n) == IF n = 0 THEN 1 ELSE b * Pow(b, n - 1)

\* number of binary digits of n > 0
RECURSIVE BitLen(_)
BitLen(n) == IF n = 0 THEN 0 ELSE 1 + BitLen(n \div 2)

\* number of factors 2 of n > 0
RECURSIVE TwoAdic(_)
TwoAdic(n) == IF n % 2 = 1 THEN 0 ELSE 1 + TwoAdic(n \div 2)

Infinity(neg) == [kind |-> "inf", neg |-> neg, mant |-> 0, exp2 |-> 0]

NaN == [kind |-> "nan", neg |-> FALSE, mant |-> 0, exp2 |-> 0]

\* the double (-1)^neg * n * 2^q, n >= 0, in normal form
finite(neg, n, q) ==
    IF n = 0 THEN [kind |-> "finite", neg |-> neg, mant |-> 0, exp2 |-> 0]
    ELSE LET a == TwoAdic(n) IN
         [kind |-> "finite", neg |-> neg, mant |-> n \div Pow(2, a), exp2 |-> q + a]

\* the integer nearest to num/den, ties to the even one
round_half_even(num, den) ==
    LET f == num \div den
        r == num % den
    IN IF 2 * r < den THEN f
       ELSE IF 2 * r > den THEN f + 1
       ELSE IF f % 2 = 0 THEN f ELSE f + 1

\* the double nearest to N/D (N, D > 0), ties to even: 53 significant bits,
\* least exponent -1074, an infinity from 2^1024 on
round_double(neg, N, D) ==
    LET k  == BitLen(N) - BitLen(D)
        \* floor(log2(N/D))
        lg == IF (IF k >= 0 THEN N >= D * Pow(2, k) ELSE N * Pow(2, 0 - k) >= D)
              THEN k ELSE k - 1
        q  == IF lg - 52 < -1074 THEN -1074 ELSE lg - 52
        n  == IF q >= 0 THEN round_half_even(N, D * Pow(2, q))
              ELSE round_half_even(N * Pow(2, 0 - q), D)
    IN IF q > 971 \/ (q = 971 /\ BitLen(n) > 53) THEN Infinity(neg)
       ELSE finite(neg, n, q)

\* the double of the decimal (-1)^neg * M * 10^E
double_of(neg, M, E) ==
    IF M = 0 THEN finite(neg, 0, 0)
    ELSE LET a  == TwoAdic(M)
             Mo == M \div Pow(2, a)
             \* M * 10^E = (Mo * 5^E) * 2^(a + E) for E >= 0,
             \*          = (Mo / 5^-E) * 2^(a + E) for E < 0
             f  == Pow(5, IF E >= 0 THEN E ELSE 0 - E)
             exact == E >= 0 \/ Mo % f = 0
             m  == IF E >= 0 THEN Mo * f ELSE Mo \div f
         IN IF exact /\ BitLen(m) <= 53 /\ a + E >= -1074
                     /\ a + E + BitLen(m) <= 1024
            THEN \* the decimal is a double: no rounding
                 [kind |-> "finite", neg |-> neg, mant |-> m, exp2 |-> a + E]
            ELSE IF E >= 0 THEN round_double(neg, M * Pow(10, E), 1)
                 ELSE round_double(neg, M, Pow(10, 0 - E))

\* float(tok)
float_val(tok) ==
    LET t   == plain(tok)
        b   == unsigned(t)
        neg == negative(t)
    IN IF special_of(b) = "inf" THEN Infinity(neg)
       ELSE IF special_of(b) = "nan" THEN NaN
       ELSE LET m   == mantissa_part(b)
                x   == exponent_part(b)
                dot == find(m, Dot)
                fr  == IF dot = -1 THEN 0 ELSE Len(m) - dot - 1
                ex  == (IF negative(x) THEN -1 ELSE 1) * digits_val(unsigned(x))
            IN double_of(neg, digits_val(SelectSeq(m, IsAsciiDigit)), ex - fr)

----------------------------------------------------------------------------
(* obj_to_dict *)

NoErr == [type |-> "none", msg |-> "", n |-> 0, tok |-> <<>>]

ValueError(m, k, t) == [type |-> "ValueError", msg |-> m, n |-> k, tok |-> t]

\* lines 14 and 18: the message and the operand count it is formatted with
vertex_count_error(data) ==
    ValueError("All vertices must be 3D, at least one vertex is {}D", Len(data) - 1, <<>>)

face_count_error(data) ==
    ValueError("All faces must be triangles, at least one face has {} vertices",
               Len(data) - 1, <<>>)

float_error(tok) == ValueError("could not convert string to float", 0, tok)

int_error(tok) == ValueError("invalid literal for int() with base 10", 0, tok)

\* the ValueError of a run of digits longer than the limit, with its number
\* of digits
int_limit_error(tok) ==
    ValueError("Exceeds the limit (4300 digits) for integer string conversion",
               int_digits(tok), <<>>)

\* the exception int(tok) raises: the limit is tested before the rest of the
\* token is looked at
int_failure(tok) ==
    IF int_too_long(tok) THEN int_limit_error(tok) ELSE int_error(tok)

\* line 9: the exception of a read that fails: bytes that are no UTF-8
\* (UnicodeDecodeError), an error of the operating system (OSError), or no
\* file to iterate (TypeError: obj_file is None when the input is '-' and
\* stdin is closed)
ReadError(t) == [type |-> t, msg |-> "read", n |-> 0, tok |-> <<>>]

\* line 30: the exception of a write that fails: an error of the operating
\* system (OSError: a closed pipe, a full device), or no file to write to
\* (AttributeError: args.json is None when the output is '-' and stdout is
\* closed)
WriteError(t) == [type |-> t, msg |-> "write", n |-> 0, tok |-> <<>>]

V == chars(<<"v">>)
F == chars(<<"f">>)

\* mutant: rfind instead of find, cutting at the last '/'
vertex_ref_last_slash(vertex) ==
    IF \E k \in 1..Len(vertex) : vertex[k] = Slash
    THEN prefix(vertex, (CHOOSE k \in 1..Len(vertex) :
                            vertex[k] = Slash /\ \A j \in (k + 1)..Len(vertex) : vertex[j] # Slash) - 1)
    ELSE vertex

\* lines 20-21: the part of a face operand before its first '/'
vertex_ref(vertex) ==
    LET slash == find(vertex, Slash) IN
    IF slash # -1 THEN prefix(vertex, slash) ELSE vertex

\* mutant: the reference is appended as it is, one-based
face_index_one_based(vertex) == int_val(vertex_ref(vertex))

\* line 22: the value appended for one face operand
face_index(vertex) == int_val(vertex_ref(vertex)) - 1

\* mutant: data[2:]
operands_skip_first(data) == Tail(Tail(data))

\* the operands of a line: data[1:]
operands(data) == Tail(data)

face_ok(vertex) == is_int(vertex_ref(vertex))

\* number of leading operands that float() converts
RECURSIVE float_prefix(_)
float_prefix(ops) ==
    IF ops = <<>> \/ ~is_float(Head(ops)) THEN 0
    ELSE 1 + float_prefix(Tail(ops))

\* number of leading face operands that int() converts
RECURSIVE int_prefix(_)
int_prefix(ops) ==
    IF ops = <<>> \/ ~face_ok(Head(ops)) THEN 0
    ELSE 1 + int_prefix(Tail(ops))

\* mutant: vertices = [...] instead of vertices.extend(...)
extend_vertices_overwrite(st, data) ==
    LET ops == operands(data)
        g   == float_prefix(ops)
    IN [st EXCEPT
          !.vertices = [k \in 1..g |-> float_val(ops[k])],
          !.err = IF g < Len(ops) THEN float_error(ops[g + 1]) ELSE NoErr]

\* line 15: vertices.extend(float(v) for v in data[1:]); the list keeps what
\* the generator yielded before float raised
extend_vertices(st, data) ==
    LET ops == operands(data)
        g   == float_prefix(ops)
    IN [st EXCEPT
          !.vertices = st.vertices \o [k \in 1..g |-> float_val(ops[k])],
          !.err = IF g < Len(ops) THEN float_error(ops[g + 1]) ELSE NoErr]

\* lines 19-22: the for loop over data[1:], up to the first int() that raises
append_indices(st, data) ==
    LET ops == operands(data)
        g   == int_prefix(ops)
    IN [st EXCEPT
          !.indices = st.indices \o [k \in 1..g |-> face_index(ops[k])],
          !.err = IF g < Len(ops) THEN int_failure(vertex_ref(ops[g + 1])) ELSE NoErr]

\* mutant: the operands are converted before their number is checked
loop_body_parse_first(st, line) ==
    LET data == data_of(line) IN
    IF data = <<>> THEN st
    ELSE IF data[1] = V THEN
        LET r == extend_vertices(st, data) IN
        IF r.err # NoErr THEN r
        ELSE IF Len(data) # 4 THEN [st EXCEPT !.err = vertex_count_error(data)]
        ELSE r
    ELSE IF data[1] = F THEN
        LET r == append_indices(st, data) IN
        IF r.err # NoErr THEN r
        ELSE IF Len(data) # 4 THEN [st EXCEPT !.err = face_count_error(data)]
        ELSE r
    ELSE st

\* mutant: the directive is matched by its first character (startswith)
loop_body_prefix_match(st, line) ==
    LET data == data_of(line) IN
    IF data = <<>> THEN st
    ELSE IF data[1][1] = V[1] THEN
        IF Len(data) # 4 THEN [st EXCEPT !.err = vertex_count_error(data)]
        ELSE extend_vertices(st, data)
    ELSE IF data[1][1] = F[1] THEN
        IF Len(data) # 4 THEN [st EXCEPT !.err = face_count_error(data)]
        ELSE append_indices(st, data)
    ELSE st

\* lines 10-22: one iteration of the for loop, on the state
\* st = [vertices, indices, err]
loop_body(st, line) ==
    LET data == data_of(line) IN
    IF data = <<>> THEN st
    ELSE IF data[1] = V THEN
        IF Len(data) # 4 THEN [st EXCEPT !.err = vertex_count_error(data)]
        ELSE extend_vertices(st, data)
    ELSE IF data[1] = F THEN
        IF Len(data) # 4 THEN [st EXCEPT !.err = face_count_error(data)]
        ELSE append_indices(st, data)
    ELSE st

EmptyState == [vertices |-> <<>>, indices |-> <<>>, err |-> NoErr]

\* lines 9-22: the loop, which an exception leaves at once
RECURSIVE run_loop(_, _)
run_loop(st, lines) ==
    IF lines = <<>> \/ st.err # NoErr THEN st
    ELSE run_loop(loop_body(st, Head(lines)), Tail(lines))

\* line 23: the returned dictionary
document(vs, is) == [vertices |-> vs, indices |-> is]

NoDoc == [none |-> TRUE]

\* lines 6-23: the outcome of obj_to_dict(lines): the exception raised, or the
\* dictionary returned
obj_to_dict(lines) ==
    LET st == run_loop(EmptyState, lines) IN
    IF st.err # NoErr THEN [err |-> st.err, doc |-> NoDoc]
    ELSE [err |-> NoErr, doc |-> document(st.vertices, st.indices)]

----------------------------------------------------------------------------
(* Inputs *)

\* a line of text from its words, separated by single spaces
RECURSIVE text(_)
text(words) ==
    IF words = <<>> THEN <<>>
    ELSE IF Len(words) = 1 THEN words[1]
    ELSE words[1] \o <<32>> \o text(Tail(words))

T0 == chars(<<"0">>)
T1 == chars(<<"1">>)
T2 == chars(<<"2">>)
T3 == chars(<<"3">>)
T4 == chars(<<"4">>)
TX == chars(<<"x">>)
TY == chars(<<"y">>)

\* 10 is the newline, 9 the tab, 12 the form feed, 13 the carriage return,
\* 1634 the ARABIC-INDIC DIGIT TWO
LineSet ==
    { text(<<V, T0, T0, T0>>),                                  \* v 0 0 0
      chars(<<" ", "v", " ", "1", "_", "0", "e", "-", "1", " ", "-", ".", "5", " ",
              "N", "a", "N", " ", "#", " ", "f", " ", "x">>) \o <<10>>,
                                                                \*  v 1_0e-1 -.5 NaN # f x
      text(<<F, chars(<<"1", "/", "5", "/", "9">>), chars(<<"2", "/", "/", "7">>),
             chars(<<"3", "/">>)>>),                            \* f 1/5/9 2//7 3/
      F \o <<12>> \o T0 \o <<32>> \o chars(<<"-", "1", "_", "0">>) \o <<32>>
          \o <<Plus, 1634, 13, 10>>,                            \* f<FF>0 -1_0 +<2><CR>
      text(<<V, chars(<<"1", ".", "0">>), chars(<<"2", ".", "0">>)>>),  \* v 1.0 2.0
      text(<<F, T1, T2, T3, T4>>),                              \* f 1 2 3 4
      text(<<F, TX>>),                                          \* f x
      V,                                                        \* v
      text(<<V, T1, TX, TY>>),                                  \* v 1 x y
      text(<<F, T1, chars(<<"/", "2">>), chars(<<"3", ".", "0">>)>>),   \* f 1 /2 3.0
      <<9>> \o chars(<<"#", " ", "v", " ", "1">>) \o <<10>>,    \* <tab># v 1
      text(<<chars(<<"v", "t">>), chars(<<"0", ".", "5">>), TX>>) }     \* vt 0.5 x

RECURSIVE SeqsUpTo(_, _)
SeqsUpTo(S, n) ==
    IF n = 0 THEN {<<>>}
    ELSE LET shorter == SeqsUpTo(S, n - 1) IN
         shorter \cup {Append(s, x) : s \in {t \in shorter : Len(t) = n - 1}, x \in S}

\* the triangle (0,0,0), (1,0,0), (0,1,0) with one face 1 2 3, plain and with
\* texture/normal fields
Triangle ==
    <<text(<<V, T0, T0, T0>>), text(<<V, T1, T0, T0>>), text(<<V, T0, T1, T0>>),
      text(<<F, T1, T2, T3>>)>>

TriangleSlashed ==
    <<text(<<V, T0, T0, T0>>), text(<<V, T1, T0, T0>>), text(<<V, T0, T1, T0>>),
      text(<<F, chars(<<"1", "/", "5", "/", "9">>), chars(<<"2", "/", "6", "/", "1", "0">>),
             chars(<<"3", "/", "7", "/", "1", "1">>)>>)>>

Inputs == SeqsUpTo(LineSet, MaxLines) \cup {Triangle, TriangleSlashed}

----------------------------------------------------------------------------
(* main *)

Init ==
    /\ input \in Inputs
    /\ pc = "parse_args"
    /\ parse = "pending"
    /\ objOpened = FALSE
    /\ jsonOpened = FALSE
    /\ jsonFile = "untouched"
    /\ jsonDocs = <<>>
    /\ jsonBuffer = <<>>
    /\ jsonPartial = FALSE
    /\ i = 0
    /\ vertices = <<>>
    /\ indices = <<>>
    /\ err = NoErr
    /\ result = NoDoc
    /\ exitCode = -1

\* parser.parse_args() ends the process with the given outcome and status
parse_exit(outcome, status) ==
    /\ parse' = outcome
    /\ pc' = "done"
    /\ exitCode' = status

InParseArgs == pc \in {"parse_args", "args_obj", "args_json"}

\* line 29: argparse reaches -h (or an abbreviation of --help) in the argument
\* list, before or after any positional it has converted: it prints the help
\* and exits with status 0
ParseArgsHelp ==
    /\ InParseArgs
    /\ parse_exit("help", 0)
    /\ UNCHANGED <<input, objOpened, jsonOpened, jsonFile, jsonDocs, jsonBuffer, jsonPartial, i,
                   vertices, indices, err, result>>

\* line 29: the argument list ends with a positional missing, or holds an
\* unrecognized argument: parser.error exits with status 2 after the
\* positionals present have been converted
ParseArgsUsage ==
    /\ InParseArgs
    /\ parse_exit("usage_error", 2)
    /\ UNCHANGED <<input, objOpened, jsonOpened, jsonFile, jsonDocs, jsonBuffer, jsonPartial, i,
                   vertices, indices, err, result>>

\* mutant: the output path is opened before the input path
ParseArgsObjFail_output_first ==
    /\ pc = "parse_args"
    /\ jsonOpened' = TRUE
    /\ jsonFile' = "truncated"
    /\ parse_exit("obj_error", 2)
    /\ UNCHANGED <<input, objOpened, jsonDocs, jsonBuffer, jsonPartial, i, vertices, indices, err, result>>

\* lines 27, 29: argparse converts the positionals in order; FileType('r')
\* fails on the input path, parser.error exits with status 2
ParseArgsObjFail ==
    /\ pc = "parse_args"
    /\ parse_exit("obj_error", 2)
    /\ UNCHANGED <<input, objOpened, jsonOpened, jsonFile, jsonDocs, jsonBuffer, jsonPartial, i,
                   vertices, indices, err, result>>

\* lines 27, 29: FileType('r') opens the input path ('-' is stdin)
ParseArgsObj ==
    /\ pc = "parse_args"
    /\ objOpened' = TRUE
    /\ pc' = "args_obj"
    /\ UNCHANGED <<input, parse, jsonOpened, jsonFile, jsonDocs, jsonBuffer, jsonPartial, i,
                   vertices, indices, err, result, exitCode>>

\* lines 28, 29: FileType('w') fails on the output path
ParseArgsJsonFail ==
    /\ pc = "args_obj"
    /\ parse_exit("json_error", 2)
    /\ UNCHANGED <<input, objOpened, jsonOpened, jsonFile, jsonDocs, jsonBuffer, jsonPartial, i,
                   vertices, indices, err, result>>

\* lines 28, 29: FileType('w') opens the output: a path of its own is created
\* or truncated, the path of the input is truncated before a line of it has
\* been read, '-' is stdout
ParseArgsJson ==
    /\ pc = "args_obj"
    /\ \E target \in {"file", "same", "stdout"} :
          /\ jsonFile' = IF target = "stdout" THEN jsonFile ELSE "truncated"
          /\ input' = IF target = "same" THEN <<>> ELSE input
    /\ jsonOpened' = TRUE
    /\ pc' = "args_json"
    /\ UNCHANGED <<parse, objOpened, jsonDocs, jsonBuffer, jsonPartial, i, vertices, indices, err,
                   result, exitCode>>

\* line 29: parse_args returns the namespace
ParseArgsReturn ==
    /\ pc = "args_json"
    /\ parse' = "returned"
    /\ pc' = "loop"
    /\ UNCHANGED <<input, objOpened, jsonOpened, jsonFile, jsonDocs, jsonBuffer, jsonPartial, i,
                   vertices, indices, err, result, exitCode>>

State == [vertices |-> vertices, indices |-> indices, err |-> err]

Line == input[i + 1]

\* first token of the current line, <<>> when the line has no token
Directive == LET data == data_of(Line) IN IF data = <<>> THEN <<>> ELSE data[1]

\* one iteration of the loop that raises nothing
Iterate(next) ==
    /\ next.err = NoErr
    /\ vertices' = next.vertices
    /\ indices' = next.indices
    /\ i' = i + 1
    /\ UNCHANGED <<input, pc, parse, objOpened, jsonOpened, jsonFile, jsonDocs, jsonBuffer, jsonPartial,
                   err, result, exitCode>>

\* line 11: a line without tokens
SkipLine ==
    /\ pc = "loop" /\ i < Len(input)
    /\ Directive = <<>>
    /\ Iterate(loop_body(State, Line))

\* lines 12-15: a v line
VertexLine ==
    /\ pc = "loop" /\ i < Len(input)
    /\ Directive = V
    /\ Iterate(loop_body(State, Line))

\* lines 16-22: an f line
FaceLine ==
    /\ pc = "loop" /\ i < Len(input)
    /\ Directive = F
    /\ Iterate(loop_body(State, Line))

\* any other directive: no branch is taken
OtherLine ==
    /\ pc = "loop" /\ i < Len(input)
    /\ Directive \notin {<<>>, V, F}
    /\ Iterate(loop_body(State, Line))

\* mutant: the exception is caught and what was parsed so far is dumped
uncaught_dump_partial(next) ==
    /\ vertices' = next.vertices
    /\ indices' = next.indices
    /\ err' = next.err
    /\ i' = i + 1
    /\ pc' = "done"
    /\ exitCode' = 1
    /\ jsonDocs' = Append(jsonDocs, document(next.vertices, next.indices))
    /\ UNCHANGED <<input, parse, objOpened, jsonOpened, jsonFile, jsonBuffer,
                   jsonPartial, result>>

\* the effect of an exception leaving obj_to_dict and main uncaught: the
\* interpreter prints the traceback and exits with status 1
uncaught(next) ==
    /\ vertices' = next.vertices
    /\ indices' = next.indices
    /\ err' = next.err
    /\ i' = i + 1
    /\ pc' = "done"
    /\ exitCode' = 1
    /\ UNCHANGED <<input, parse, objOpened, jsonOpened, jsonFile, jsonDocs, jsonBuffer, jsonPartial, result>>

\* mutant: the offending line is skipped and the loop goes on
Raise_skip ==
    /\ pc = "loop" /\ i < Len(input)
    /\ loop_body(State, Line).err # NoErr
    /\ i' = i + 1
    /\ UNCHANGED <<input, pc, parse, objOpened, jsonOpened, jsonFile, jsonDocs, jsonBuffer, jsonPartial,
                   vertices, indices, err, result, exitCode>>

\* lines 14, 15, 18, 22: the iteration raises ValueError
Raise ==
    /\ pc = "loop" /\ i < Len(input)
    /\ loop_body(State, Line).err # NoErr
    /\ uncaught(loop_body(State, Line))

\* line 23: the file is exhausted, obj_to_dict returns
Return ==
    /\ pc = "loop" /\ i = Len(input)
    /\ result' = document(vertices, indices)
    /\ pc' = "dump"
    /\ UNCHANGED <<input, parse, objOpened, jsonOpened, jsonFile, jsonDocs, jsonBuffer, jsonPartial, i,
                   vertices, indices, err, exitCode>>

\* args.json is sys.stdout: the output argument was '-'
ToStdout == jsonOpened /\ jsonFile = "untouched"

\* line 9: reading the next line raises instead of giving a line or the end
\* of the file; iterating None (stdin closed) raises before any line.  The
\* exception leaves obj_to_dict and main uncaught
ReadFail ==
    /\ pc = "loop"
    /\ \E t \in {"UnicodeDecodeError", "OSError", "TypeError"} :
          /\ t = "TypeError" => i = 0
          /\ err' = ReadError(t)
    /\ pc' = "done"
    /\ exitCode' = 1
    /\ UNCHANGED <<input, parse, objOpened, jsonOpened, jsonFile, jsonDocs,
                   jsonBuffer, jsonPartial, i, vertices, indices, result>>

\* line 30: json.dump writes the text of the dictionary to args.json, whose
\* buffer takes it whole (the text of a document of Inputs is shorter than
\* the buffer, and its integers are shorter than the 4300 digits past which
\* json.dump raises ValueError); nothing has reached the output when main
\* returns
Dump ==
    /\ pc = "dump"
    /\ jsonBuffer' = Append(jsonBuffer, result)
    /\ pc' = "exit"
    /\ UNCHANGED <<input, parse, objOpened, jsonOpened, jsonFile, jsonDocs,
                   jsonPartial, i, vertices, indices, err, result, exitCode>>

\* line 30 with stdout unbuffered (python -u, PYTHONUNBUFFERED): the writes
\* of json.dump reach the output as they are made
DumpUnbuffered ==
    /\ pc = "dump" /\ ToStdout
    /\ jsonDocs' = Append(jsonDocs, result)
    /\ pc' = "exit"
    /\ UNCHANGED <<input, parse, objOpened, jsonOpened, jsonFile, jsonBuffer,
                   jsonPartial, i, vertices, indices, err, result, exitCode>>

\* line 30, the output being '-': json.dump raises.  With stdout unbuffered
\* a write fails (OSError: a closed pipe, a full device) after none or some
\* of the text was written; with stdout closed args.json is None and the
\* first write raises AttributeError, nothing written.  The exception leaves
\* main uncaught
DumpRaise ==
    /\ pc = "dump" /\ ToStdout
    /\ \E t \in {"OSError", "AttributeError"} :
          /\ err' = WriteError(t)
          /\ jsonPartial' \in IF t = "OSError" THEN BOOLEAN ELSE {FALSE}
    /\ pc' = "done"
    /\ exitCode' = 1
    /\ UNCHANGED <<input, parse, objOpened, jsonOpened, jsonFile, jsonDocs,
                   jsonBuffer, i, vertices, indices, result>>

\* lines 32-33: main has returned and the interpreter exits; it flushes what
\* args.json has buffered, which main never closed
Exit ==
    /\ pc = "exit"
    /\ jsonDocs' = jsonDocs \o jsonBuffer
    /\ jsonBuffer' = <<>>
    /\ pc' = "done"
    /\ exitCode' = 0
    /\ UNCHANGED <<input, parse, objOpened, jsonOpened, jsonFile, jsonPartial,
                   i, vertices, indices, err, result>>

\* lines 32-33: the flush at exit fails (a full device, a file size limit, a
\* closed pipe) after none or some of the text was written; the failure on a
\* file is dropped and the status is 0, the failure on stdout gives status 120
ExitFlushFail ==
    /\ pc = "exit"
    /\ jsonBuffer # <<>>
    /\ jsonBuffer' = <<>>
    /\ jsonPartial' \in BOOLEAN
    /\ pc' = "done"
    /\ exitCode' = IF ToStdout THEN 120 ELSE 0
    /\ UNCHANGED <<input, parse, objOpened, jsonOpened, jsonFile, jsonDocs,
                   i, vertices, indices, err, result>>

Next ==
    \/ ParseArgsHelp
    \/ ParseArgsUsage
    \/ ParseArgsObjFail
    \/ ParseArgsObj
    \/ ParseArgsJsonFail
    \/ ParseArgsJson
    \/ ParseArgsReturn
    \/ ReadFail
    \/ SkipLine
    \/ VertexLine
    \/ FaceLine
    \/ OtherLine
    \/ Raise
    \/ Return
    \/ Dump
    \/ DumpUnbuffered
    \/ DumpRaise
    \/ Exit
    \/ ExitFlushFail

Spec == Init /\ [][Next]_vars

\* main at line 30, where it calls obj_to_dict: parse_args has returned, the
\* input is open and the output is a file of its own, just truncated
InitConvert ==
    /\ input \in Inputs
    /\ pc = "loop"
    /\ parse = "returned"
    /\ objOpened = TRUE
    /\ jsonOpened = TRUE
    /\ jsonFile = "truncated"
    /\ jsonDocs = <<>>
    /\ jsonBuffer = <<>>
    /\ jsonPartial = FALSE
    /\ i = 0
    /\ vertices = <<>>
    /\ indices = <<>>
    /\ err = NoErr
    /\ result = NoDoc
    /\ exitCode = -1

\* lines 30-33: the conversion, the dump and the exit
NextConvert ==
    \/ ReadFail
    \/ SkipLine
    \/ VertexLine
    \/ FaceLine
    \/ OtherLine
    \/ Raise
    \/ Return
    \/ Dump
    \/ Exit
    \/ ExitFlushFail

\* the runs of main from the call of obj_to_dict on, for every input
SpecConvert == InitConvert /\ [][NextConvert]_vars

----------------------------------------------------------------------------
(* Properties *)

Zero == finite(FALSE, 0, 0)
One == finite(FALSE, 1, 0)

Done == pc = "done"

\* the run ended in or after the conversion: parse_args had returned
Converted == Done /\ parse = "returned"

\* the conversion ran and the process ended with status 0
Succeeded == Converted /\ exitCode = 0

\* obj_to_dict returned: the input converted without error
Returned == result # NoDoc

\* the run ended because a line could not be read
ReadFailed == err.msg = "read"

\* nothing of any document has reached the output
NothingWritten == jsonDocs = <<>> /\ ~jsonPartial

\* what obj_to_dict made of the input: the exception it raised or the
\* dictionary it returned
Outcome == [err |-> IF Returned THEN NoErr ELSE err, doc |-> result]

IsV(line) == LET data == data_of(line) IN data # <<>> /\ data[1] = V
IsF(line) == LET data == data_of(line) IN data # <<>> /\ data[1] = F
NoTokens(line) == data_of(line) = <<>>
IsOther(line) == ~NoTokens(line) /\ ~IsV(line) /\ ~IsF(line)

\* operand k (1-based) of a line
Operand(line, k) == data_of(line)[k + 1]
NumOperands(line) == Len(data_of(line)) - 1

\* lines with ins put in after the first pos lines
InsertLine(lines, pos, ins) ==
    SubSeq(lines, 1, pos) \o <<ins>> \o SubSeq(lines, pos + 1, Len(lines))

RemoveLine(lines, j) == SubSeq(lines, 1, j - 1) \o SubSeq(lines, j + 1, Len(lines))

----------------------------------------------------------------------------
\* C1 as stated: nothing reaches the output, or its buffer, before every
\* line has been parsed; a run whose parsing fails ends with nothing written
\* and a status other than 0; a run that ends with status 0 after the
\* conversion has written exactly one document, the complete one.
C1_WriteOnlyAfterFullParse ==
    /\ (jsonDocs # <<>> \/ jsonPartial \/ jsonBuffer # <<>>) =>
          /\ Returned /\ i = Len(input)
          /\ obj_to_dict(input).err = NoErr
    /\ (Done /\ err.type = "ValueError") => (NothingWritten /\ exitCode # 0)
    /\ Succeeded =>
          /\ jsonDocs = <<result>> /\ ~jsonPartial
          /\ result = obj_to_dict(input).doc

\* C1, the part that holds: nothing reaches the output, or its buffer, before
\* every line has been parsed; a run that ends in parse_args, on a line that
\* cannot be read or on a line that does not parse ends with nothing written;
\* what is buffered or written whole is the one dictionary obj_to_dict
\* returned, at most once.
C1_NoWriteBeforeFullParse ==
    /\ (jsonDocs # <<>> \/ jsonPartial \/ jsonBuffer # <<>>) =>
          /\ Returned /\ i = Len(input)
          /\ obj_to_dict(input).err = NoErr
          /\ result = obj_to_dict(input).doc
    /\ (Done /\ ~Returned) => (NothingWritten /\ jsonBuffer = <<>>)
    /\ (Done /\ err # NoErr) => exitCode # 0
    /\ jsonDocs \o jsonBuffer \in {<<>>, <<result>>}

\* a run that parsed some vertices, then failed on a later line, and ended
\* with nothing written
C1_Witness ==
    Done /\ err # NoErr /\ i >= 2 /\ Len(vertices) >= 3 /\ jsonDocs = <<>>

----------------------------------------------------------------------------
\* the j-th face reference of the input, counting the operands of the f lines
\* in order of appearance
FaceRef(lines, j) ==
    LET fl == SelectSeq(lines, IsF) IN
    int_val(vertex_ref(Operand(fl[((j - 1) \div 3) + 1], ((j - 1) % 3) + 1)))

NumVLines(lines) == Len(SelectSeq(lines, IsV))

\* C2 as stated: after a conversion without error every index is in
\* [0, len(vertices)/3 - 1]
C2_IndicesInRange ==
    Returned =>
        \A j \in 1..Len(result.indices) :
            result.indices[j] \in 0..((Len(result.vertices) \div 3) - 1)

\* C2 amended: after a conversion without error every index is k - 1 for the
\* corresponding reference k of the input, and it is in
\* [0, len(vertices)/3 - 1] exactly when 1 <= k <= the number of v lines of
\* the whole input; no range check is made
C2_IndexIsRefMinusOne ==
    Returned =>
        /\ Len(result.vertices) = 3 * NumVLines(input)
        /\ \A j \in 1..Len(result.indices) :
              LET k == FaceRef(input, j) IN
              /\ result.indices[j] = k - 1
              /\ (result.indices[j] \in 0..((Len(result.vertices) \div 3) - 1))
                    <=> (k \in 1..NumVLines(input))

\* a successful conversion with vertices, with an index in range and a
\* negative one
C2_Witness ==
    /\ Succeeded
    /\ result.vertices # <<>>
    /\ \E j \in 1..Len(result.indices) : result.indices[j] < 0
    /\ \E j \in 1..Len(result.indices) :
          result.indices[j] \in 0..((Len(result.vertices) \div 3) - 1)

----------------------------------------------------------------------------
\* C3: a v or f line with N # 3 operands raises the format error of its
\* directive, formatted with N, and no operand of it has been converted:
\* this holds of the line the loop consumed last, whatever its operands.
C3_CountErrorFirst ==
    (objOpened /\ i >= 1) =>
        LET line == input[i]
            N    == NumOperands(line)
        IN /\ (IsV(line) /\ N # 3) =>
                 /\ Done /\ exitCode = 1 /\ result = NoDoc
                 /\ err.type = "ValueError"
                 /\ err.msg = "All vertices must be 3D, at least one vertex is {}D"
                 /\ err.n = N
                 /\ Len(vertices) = 3 * NumVLines(SubSeq(input, 1, i - 1))
           /\ (IsF(line) /\ N # 3) =>
                 /\ Done /\ exitCode = 1 /\ result = NoDoc
                 /\ err.type = "ValueError"
                 /\ err.msg = "All faces must be triangles, at least one face has {} vertices"
                 /\ err.n = N
                 /\ Len(indices) = 3 * Len(SelectSeq(SubSeq(input, 1, i - 1), IsF))

\* the run ended on an f line with one operand that is no number
C3_Witness ==
    /\ Done /\ i >= 2
    /\ data_of(input[i]) = <<F, TX>>
    /\ err.n = 1

----------------------------------------------------------------------------
OperandParses(line, k) ==
    IF IsV(line) THEN is_float(Operand(line, k))
    ELSE is_int(vertex_ref(Operand(line, k)))

\* a v or f line the conversion cannot accept
BadLine(line) ==
    LET data == data_of(line) IN
    /\ data # <<>>
    /\ data[1] \in {V, F}
    /\ \/ Len(data) # 4
       \/ \E k \in 2..4 :
             IF data[1] = V THEN ~is_float(data[k])
             ELSE ~is_int(vertex_ref(data[k]))

\* the exception a bad line raises
ErrorOf(line) ==
    IF NumOperands(line) # 3
    THEN IF IsV(line) THEN vertex_count_error(data_of(line))
         ELSE face_count_error(data_of(line))
    ELSE LET k == CHOOSE k \in 1..3 :
                     /\ ~OperandParses(line, k)
                     /\ \A h \in 1..(k - 1) : OperandParses(line, h)
         IN IF IsV(line) THEN float_error(Operand(line, k))
            ELSE int_failure(vertex_ref(Operand(line, k)))

\* C4 as stated: the conversion fails exactly when the input has a bad line;
\* the exception is that of the earliest bad line (of its leftmost operand
\* that does not parse), the loop consumes no line after it, no dictionary
\* is returned and the exit status is not 0; without a bad line the
\* conversion succeeds.
C4_FailsIffBadLine ==
    LET bad == {j \in 1..Len(input) : BadLine(input[j])} IN
    /\ err # NoErr => Done
    /\ \A j \in 1..(i - 1) : ~BadLine(input[j])
    /\ Converted =>
          IF bad # {}
          THEN LET first == CHOOSE j \in bad : \A h \in bad : j <= h IN
               /\ err = ErrorOf(input[first])
               /\ i = first
               /\ result = NoDoc
               /\ exitCode # 0
          ELSE ~(result = NoDoc)

\* C4 amended: in a run in which reading the input raises nothing,
\* obj_to_dict raises exactly when the input has a bad line: the exception
\* is that of the earliest bad line (of its leftmost operand that does not
\* parse), no line is consumed after it, no dictionary is returned, nothing
\* is written and the exit status is not 0; without a bad line obj_to_dict
\* returns its dictionary.  When reading the input raises, whatever the
\* exception, the run ends in the same way before any bad line is passed.
\* An exception always ends the run with a status other than 0.
C4_FirstErrorAborts ==
    LET bad == {j \in 1..Len(input) : BadLine(input[j])} IN
    /\ err # NoErr => (Done /\ exitCode # 0)
    /\ \A j \in 1..(i - 1) : ~BadLine(input[j])
    /\ (Converted /\ ~ReadFailed) =>
          IF bad # {}
          THEN LET first == CHOOSE j \in bad : \A h \in bad : j <= h IN
               /\ err = ErrorOf(input[first])
               /\ i = first
               /\ result = NoDoc /\ NothingWritten
               /\ exitCode # 0
          ELSE Returned
    /\ ReadFailed => (result = NoDoc /\ NothingWritten)

\* the run ended on 'v 1 x y' with lines left unread, reporting x
C4_Witness ==
    /\ Done /\ i >= 2 /\ i < Len(input)
    /\ data_of(input[i]) = <<V, T1, TX, TY>>
    /\ err = float_error(TX)

----------------------------------------------------------------------------
\* the reference: entry j of the concatenation of the operand triples of the
\* v lines (as floats) and of the f lines (as references minus one)
RefVertices(lines) ==
    LET vl == SelectSeq(lines, IsV) IN
    [j \in 1..(3 * Len(vl)) |->
        float_val(Operand(vl[((j - 1) \div 3) + 1], ((j - 1) % 3) + 1))]

RefIndices(lines) ==
    LET fl == SelectSeq(lines, IsF) IN
    [j \in 1..(3 * Len(fl)) |-> FaceRef(lines, j) - 1]

\* C5: a conversion without error returns the dictionary with exactly the
\* members vertices and indices whose values are the reference
\* concatenations, and a document that is buffered or written is that
\* dictionary; the triangle example gives [0,0,0,1,0,0,0,1,0], [0,1,2].
C5_ReferenceFold ==
    Returned =>
        /\ DOMAIN result = {"vertices", "indices"}
        /\ result.vertices = RefVertices(input)
        /\ result.indices = RefIndices(input)
        /\ \A k \in 1..Len(jsonDocs \o jsonBuffer) : (jsonDocs \o jsonBuffer)[k] = result
        /\ input = Triangle =>
              /\ result.vertices = <<Zero, Zero, Zero, One, Zero, Zero, Zero, One, Zero>>
              /\ result.indices = <<0, 1, 2>>

C5_Witness == Succeeded /\ input = Triangle /\ Len(result.vertices) = 9

----------------------------------------------------------------------------
Suffixes ==
    { chars(<<"/">>), chars(<<"/", "/", "7">>), chars(<<"/", "x">>),
      chars(<<"/", "5", "/", "9">>) }

\* the line with '/suffix' appended to operand k
WithSuffix(line, k, suffix) ==
    LET data == data_of(line) IN
    text([h \in 1..Len(data) |-> IF h = k + 1 THEN data[h] \o suffix ELSE data[h]])

ReplaceLine(lines, j, line) == [lines EXCEPT ![j] = line]

\* C6: appending '/<suffix>' to any operand of an f line changes nothing of
\* what the loop makes of the line: from the state the loop is in, the line
\* with the suffix leads to the same state (the same indices or the same
\* exception) as the line itself, so the outcome of the run is the same; the
\* triangle with texture/normal fields converts as the plain one.
C6_SlashSuffixIgnored ==
    /\ (pc = "loop" /\ i < Len(input) /\ IsF(Line)) =>
          LET same == loop_body(State, Line) IN
          \A k \in 1..NumOperands(Line) : \A suffix \in Suffixes :
              loop_body(State, WithSuffix(Line, k, suffix)) = same
    /\ (Converted /\ ~ReadFailed /\ input = TriangleSlashed) =>
          /\ Outcome = obj_to_dict(Triangle)
          /\ result.indices = <<0, 1, 2>>

C6_Witness == Succeeded /\ input = TriangleSlashed /\ Len(result.indices) = 3

----------------------------------------------------------------------------
BlankLines ==
    { <<10>>,                                                 \* newline
      <<32, 9, 12, 13, 10>>,                                  \* space tab FF CR newline
      chars(<<" ", "#", " ", "v", " ", "1">>) \o <<10>> }     \*  # v 1

Comments == { chars(<<"#">>), chars(<<" ", "#", " ", "f", "#", "1">>) }

\* the line with a comment appended at its end, before its newline
AppendComment(line, c) ==
    IF line # <<>> /\ line[Len(line)] = 10
    THEN SubSeq(line, 1, Len(line) - 1) \o c \o <<10>>
    ELSE line \o c

\* C7: a blank, whitespace-only or comment-only line changes nothing when
\* the loop consumes it, in whatever state the loop is, and a line with a
\* comment appended leads to the same state as the line itself; so inserting
\* such a line at any position, removing one, or appending a comment to any
\* line leaves the outcome of the run as it is (shown on the triangle).
C7_BlankAndCommentInert ==
    /\ pc = "loop" =>
          /\ \A b \in BlankLines : loop_body(State, b) = State
          /\ i < Len(input) =>
                /\ NoTokens(Line) => loop_body(State, Line) = State
                /\ LET same == loop_body(State, Line) IN
                   \A c \in Comments : loop_body(State, AppendComment(Line, c)) = same
    /\ (Converted /\ ~ReadFailed /\ input = Triangle) =>
          /\ \A pos \in 0..Len(input) : \A b \in BlankLines :
                obj_to_dict(InsertLine(input, pos, b)) = Outcome
          /\ \A j \in 1..Len(input) : \A c \in Comments :
                obj_to_dict(ReplaceLine(input, j, AppendComment(input[j], c))) = Outcome

\* a successful conversion of an input with a comment-only line, a trailing
\* comment on a v line, and a non-empty result
C7_Witness ==
    /\ Succeeded /\ result.vertices # <<>>
    /\ \E j \in 1..Len(input) : NoTokens(input[j]) /\ find(input[j], Hash) # -1
    /\ \E j \in 1..Len(input) : IsV(input[j]) /\ find(input[j], Hash) # -1

----------------------------------------------------------------------------
OtherLines ==
    { text(<<chars(<<"v", "t">>), chars(<<"0", ".", "5">>), chars(<<"0", ".", "5">>)>>),
                                                                \* vt 0.5 0.5
      text(<<chars(<<"o">>), TX, TY, TX, TY>>),                 \* o x y x y
      text(<<chars(<<"f", "v">>), T1, T2, T3>>),                \* fv 1 2 3
      text(<<chars(<<"V">>), T1>>) }                            \* V 1

\* C8: a line whose first token is neither v nor f changes nothing when the
\* loop consumes it, in whatever state the loop is; so the lengths of the
\* lists after such a line are those of the v and f lines before it, and
\* inserting such a line at any position leaves the outcome of the run as it
\* is (shown on the triangle).
C8_OtherDirectivesIgnored ==
    /\ pc = "loop" =>
          /\ \A o \in OtherLines : loop_body(State, o) = State
          /\ (i < Len(input) /\ IsOther(Line)) => loop_body(State, Line) = State
    /\ (objOpened /\ i >= 1 /\ IsOther(input[i])) =>
          /\ err.type # "ValueError"
          /\ Len(vertices) = 3 * NumVLines(SubSeq(input, 1, i))
          /\ Len(indices) = 3 * Len(SelectSeq(SubSeq(input, 1, i), IsF))
    /\ (Converted /\ ~ReadFailed /\ input = Triangle) =>
          \A pos \in 0..Len(input) : \A o \in OtherLines :
              obj_to_dict(InsertLine(input, pos, o)) = Outcome

\* a successful conversion of an input with a vt line with a non-numeric
\* operand between other lines, and a non-empty result
C8_Witness ==
    /\ Succeeded /\ result.vertices # <<>>
    /\ \E j \in 2..Len(input) : IsOther(input[j]) /\ NumOperands(input[j]) = 2

----------------------------------------------------------------------------
\* C9: while no exception is raised, after every iteration vertices holds
\* three entries per v line consumed and indices three per f line consumed;
\* so both lengths of a returned dictionary are multiples of 3.
C9_LengthsMultipleOfThree ==
    /\ err = NoErr =>
          /\ Len(vertices) = 3 * NumVLines(SubSeq(input, 1, i))
          /\ Len(indices) = 3 * Len(SelectSeq(SubSeq(input, 1, i), IsF))
    /\ result # NoDoc =>
          /\ Len(result.vertices) % 3 = 0
          /\ Len(result.indices) % 3 = 0

C9_Witness ==
    Succeeded /\ Len(result.vertices) >= 3 /\ Len(result.indices) >= 3

----------------------------------------------------------------------------
\* C10: as long as the input has not been opened the output path is
\* untouched and not opened, nothing is written and no line is consumed; a
\* run in which the input cannot be opened ends at once, with status 2 and
\* the input not opened.
C10_NoOutputWithoutInput ==
    /\ ~objOpened =>
          /\ ~jsonOpened /\ jsonFile = "untouched"
          /\ NothingWritten /\ jsonBuffer = <<>>
          /\ i = 0 /\ vertices = <<>> /\ indices = <<>>
    /\ jsonOpened => objOpened
    /\ parse = "obj_error" => (Done /\ exitCode = 2 /\ ~objOpened)

C10_Witness == Done /\ parse = "obj_error" /\ input # <<>>

====
